---------------------------- MODULE Spec2Model ----------------------------
(* A model of scripts/test-spider.py: the failure classifier             *)
(* (categorize_failure) and the run aggregator (main) that drives a      *)
(* corpus of queries through the external parser.                        *)
(*                                                                       *)
(* A text is a sequence of one-character strings, so that containment,   *)
(* indexing, slicing and upper-casing are computed character by          *)
(* character as Python computes them. The texts are ASCII.               *)
EXTENDS Integers, Sequences, FiniteSets

VARIABLES
    args,          \* the parsed command line: [limit, categorize, verbose]
    dataExists,    \* environment: SPIDER_DATA.exists()
    parserExists,  \* environment: PARSER_BIN.exists()
    corpus,        \* environment: the queries stored in the corpus file
    outcomes,      \* environment: outcomes[k] is whether the k-th parser process exits 0
    pc,            \* position in main
    data,          \* main: data
    limit,         \* main: limit
    idx,           \* main: number of items the for loop has taken from data[:limit]
    total,         \* main: total
    passed,        \* main: passed
    failures,      \* main: failures
    invoked,       \* the queries test_query was called with, in call order
    categories,    \* the printed histogram lines, <<category, count>>, top to bottom
    verboseOut,    \* the printed sample-failure texts, top to bottom
    exitCode,      \* the process exit status, -1 while main runs
    raised,        \* the uncaught exception that ended main, "none" if none
    cfQuery,       \* the argument of a stand-alone call of categorize_failure
    cfResult       \* its return value, "" before the call returns

vars == <<args, dataExists, parserExists, corpus, outcomes, pc, data, limit, idx,
          total, passed, failures, invoked, categories, verboseOut, exitCode,
          raised, cfQuery, cfResult>>

runVars == <<args, dataExists, parserExists, corpus, outcomes, pc, data, limit, idx,
             total, passed, failures, invoked, categories, verboseOut, exitCode,
             raised>>

-----------------------------------------------------------------------------
(* Bounds of the model and constants of the program *)

\* longest corpus of the small runs
MaxCorpus == 3
\* longest corpus of the long runs (beyond the 20 listed sample failures)
MaxBig == 22
\* most fragments concatenated into one classifier input
MaxFrags == 3
\* failures[:20]
SampleLimit == 20
\* q[:100] and len(q) > 100
TruncateLen == 100

Min(a, b) == IF a <= b THEN a ELSE b
Max(a, b) == IF a >= b THEN a ELSE b

-----------------------------------------------------------------------------
(* Python's string and list operations *)

LowerCase == <<"a","b","c","d","e","f","g","h","i","j","k","l","m","n","o","p","q","r","s","t","u","v","w","x","y","z">>
UpperCase == <<"A","B","C","D","E","F","G","H","I","J","K","L","M","N","O","P","Q","R","S","T","U","V","W","X","Y","Z">>

ToUpper == [c \in {LowerCase[i] : i \in 1..Len(LowerCase)} |->
               UpperCase[CHOOSE i \in 1..Len(LowerCase) : LowerCase[i] = c]]

\* str.upper(): lower-case letters become upper-case, every other character stays
upper(s) == [i \in 1..Len(s) |-> IF s[i] \in DOMAIN ToUpper THEN ToUpper[s[i]] ELSE s[i]]

\* needle in hay
Contains(hay, needle) ==
    \E i \in 1..(Len(hay) - Len(needle) + 1) :
        SubSeq(hay, i, i + Len(needle) - 1) = needle

\* s.index(ch), 0-based, for a character that occurs in s
index(s, ch) ==
    (CHOOSE i \in 1..Len(s) : s[i] = ch /\ \A j \in 1..(i - 1) : s[j] # ch) - 1

\* s.count(ch)
count(s, ch) == Cardinality({i \in 1..Len(s) : s[i] = ch})

\* s[n:] for n >= 0
SliceFrom(s, n) == SubSeq(s, n + 1, Len(s))

\* s[:n] for any integer n: a negative n counts from the end
SliceTo(s, n) ==
    IF n >= 0 THEN SubSeq(s, 1, Min(n, Len(s)))
              ELSE SubSeq(s, 1, Max(0, Len(s) + n))

-----------------------------------------------------------------------------
(* categorize_failure *)

SELECT == <<"S","E","L","E","C","T">>
LPAREN == "("
EXCEPT_ == <<" ","E","X","C","E","P","T"," ">>
UNION_ == <<" ","U","N","I","O","N"," ">>
INTERSECT_ == <<" ","I","N","T","E","R","S","E","C","T"," ">>
CASE_ == <<"C","A","S","E"," ">>
WHEN_ == <<" ","W","H","E","N"," ">>
CONCAT_ == <<" ","|","|"," ">>
DQUOTE == "\""
EMPTYQUOTES == <<"\"","\"">>

\* the nested-SELECT check scanning only up to the first ')' after the parenthesis
IsSubquery_closing(q) ==
    IF Contains(q, SELECT) /\ Contains(q, <<LPAREN>>)
    THEN LET paren_idx == index(q, LPAREN)
             after_paren == SliceFrom(q, paren_idx + 1)
             inside == IF Contains(after_paren, <<")">>)
                       THEN SliceTo(after_paren, index(after_paren, ")"))
                       ELSE after_paren
         IN  Contains(inside, SELECT)
    ELSE FALSE

\* lines 36-41: the nested-SELECT check
IsSubquery(q) ==
    IF Contains(q, SELECT) /\ Contains(q, <<LPAREN>>)
    THEN LET paren_idx == index(q, LPAREN)
         IN  IF paren_idx + 1 < Len(q)
             THEN LET after_paren == SliceFrom(q, paren_idx + 1)
                  IN  Contains(after_paren, SELECT)
             ELSE FALSE
    ELSE FALSE

\* the EXCEPT check placed before the nested-SELECT check
categorize_failure_swapped(query) ==
    LET q == upper(query)
    IN  IF Contains(q, EXCEPT_) THEN "EXCEPT"
        ELSE IF IsSubquery(q) THEN "Subquery"
        ELSE IF Contains(q, UNION_) THEN "UNION"
        ELSE IF Contains(q, INTERSECT_) THEN "INTERSECT"
        ELSE IF Contains(q, CASE_) \/ Contains(q, WHEN_) THEN "CASE/WHEN"
        ELSE IF Contains(q, CONCAT_) THEN "String concat (||)"
        ELSE IF Contains(query, EMPTYQUOTES) \/ count(query, DQUOTE) % 2 # 0
             THEN "Double-quoted strings"
        ELSE "Other"

\* the quote check without the empty-pair test
categorize_failure_oddonly(query) ==
    LET q == upper(query)
    IN  IF IsSubquery(q) THEN "Subquery"
        ELSE IF Contains(q, EXCEPT_) THEN "EXCEPT"
        ELSE IF Contains(q, UNION_) THEN "UNION"
        ELSE IF Contains(q, INTERSECT_) THEN "INTERSECT"
        ELSE IF Contains(q, CASE_) \/ Contains(q, WHEN_) THEN "CASE/WHEN"
        ELSE IF Contains(q, CONCAT_) THEN "String concat (||)"
        ELSE IF count(query, DQUOTE) % 2 # 0
             THEN "Double-quoted strings"
        ELSE "Other"

\* the function without its final return: Python returns None
categorize_failure_noreturn(query) ==
    LET q == upper(query)
    IN  IF IsSubquery(q) THEN "Subquery"
        ELSE IF Contains(q, EXCEPT_) THEN "EXCEPT"
        ELSE IF Contains(q, UNION_) THEN "UNION"
        ELSE IF Contains(q, INTERSECT_) THEN "INTERSECT"
        ELSE IF Contains(q, CASE_) \/ Contains(q, WHEN_) THEN "CASE/WHEN"
        ELSE IF Contains(q, CONCAT_) THEN "String concat (||)"
        ELSE IF Contains(query, EMPTYQUOTES) \/ count(query, DQUOTE) % 2 # 0
             THEN "Double-quoted strings"
        ELSE "None"

\* lines 31-57
categorize_failure(query) ==
    LET q == upper(query)
    IN  IF IsSubquery(q) THEN "Subquery"
        ELSE IF Contains(q, EXCEPT_) THEN "EXCEPT"
        ELSE IF Contains(q, UNION_) THEN "UNION"
        ELSE IF Contains(q, INTERSECT_) THEN "INTERSECT"
        ELSE IF Contains(q, CASE_) \/ Contains(q, WHEN_) THEN "CASE/WHEN"
        ELSE IF Contains(q, CONCAT_) THEN "String concat (||)"
        ELSE IF Contains(query, EMPTYQUOTES) \/ count(query, DQUOTE) % 2 # 0
             THEN "Double-quoted strings"
        ELSE "Other"

-----------------------------------------------------------------------------
(* collections.Counter and Counter.most_common *)

\* Counter(labels): <<label, count>> pairs in the order the labels are first seen
RECURSIVE Counter(_)
Counter(labels) ==
    IF labels = <<>> THEN <<>>
    ELSE LET prev == Counter(SubSeq(labels, 1, Len(labels) - 1))
             x == labels[Len(labels)]
         IN  IF \E i \in 1..Len(prev) : prev[i][1] = x
             THEN LET i == CHOOSE i \in 1..Len(prev) : prev[i][1] = x
                  IN  [prev EXCEPT ![i] = <<x, prev[i][2] + 1>>]
             ELSE Append(prev, <<x, 1>>)

\* the tally in insertion order, not sorted
most_common_unsorted(c) == c

\* most_common(): sorted by count, largest first; equal counts keep their order
RECURSIVE most_common(_)
most_common(c) ==
    IF c = <<>> THEN <<>>
    ELSE LET rest == most_common(Tail(c))
             h == Head(c)
             k == Cardinality({i \in 1..Len(rest) : rest[i][2] > h[2]})
         IN  SubSeq(rest, 1, k) \o <<h>> \o SubSeq(rest, k + 1, Len(rest))

-----------------------------------------------------------------------------
(* main *)

ELLIPSIS == <<".",".",".">>

\* the ellipsis added from 100 characters on
Shown_ge(q) ==
    SliceTo(q, TruncateLen) \o (IF Len(q) >= TruncateLen THEN ELLIPSIS ELSE <<>>)

\* line 118: q[:100] followed by '...' if len(q) > 100
Shown(q) ==
    SliceTo(q, TruncateLen) \o (IF Len(q) > TruncateLen THEN ELLIPSIS ELSE <<>>)

\* line 85: the items the for loop iterates, data[:limit]
Items == SliceTo(data, limit)

\* lines 67-70
CheckSpiderData ==
    /\ pc = "check_data"
    /\ IF ~dataExists
       THEN pc' = "done" /\ exitCode' = 1
       ELSE pc' = "check_parser" /\ UNCHANGED exitCode
    /\ UNCHANGED <<args, dataExists, parserExists, corpus, outcomes, data, limit, idx,
                   total, passed, failures, invoked, categories, verboseOut, raised,
                   cfQuery, cfResult>>

\* the parser check always passing
CheckParserBin_skipped ==
    /\ pc = "check_parser"
    /\ pc' = "load"
    /\ UNCHANGED <<args, dataExists, parserExists, corpus, outcomes, data, limit, idx,
                   total, passed, failures, invoked, categories, verboseOut, raised,
                   exitCode, cfQuery, cfResult>>

\* lines 72-74
CheckParserBin ==
    /\ pc = "check_parser"
    /\ IF ~parserExists
       THEN pc' = "done" /\ exitCode' = 1
       ELSE pc' = "load" /\ UNCHANGED exitCode
    /\ UNCHANGED <<args, dataExists, parserExists, corpus, outcomes, data, limit, idx,
                   total, passed, failures, invoked, categories, verboseOut, raised,
                   cfQuery, cfResult>>

\* lines 76-83
LoadData ==
    /\ pc = "load"
    /\ data' = corpus
    /\ total' = 0
    /\ passed' = 0
    /\ failures' = <<>>
    /\ limit' = Min(args.limit, Len(corpus))
    /\ idx' = 0
    /\ pc' = "loop"
    /\ UNCHANGED <<args, dataExists, parserExists, corpus, outcomes, invoked,
                   categories, verboseOut, exitCode, raised, cfQuery, cfResult>>

\* lines 20-28: the k-th parser process is spawned on the query; its exit status
\* is the only thing read
test_query(query) == outcomes[Len(invoked) + 1]

\* an iteration that counts a failing query as passed too
LoopIteration_both ==
    /\ pc = "loop"
    /\ idx < Len(Items)
    /\ LET query == Items[idx + 1]
       IN  /\ idx' = idx + 1
           /\ total' = total + 1
           /\ invoked' = Append(invoked, query)
           /\ passed' = passed + 1
           /\ IF test_query(query)
              THEN UNCHANGED failures
              ELSE failures' = Append(failures, query)
    /\ UNCHANGED <<args, dataExists, parserExists, corpus, outcomes, pc, data, limit,
                   categories, verboseOut, exitCode, raised, cfQuery, cfResult>>

\* lines 85-95: one iteration of the for loop (the progress line printed every
\* 100 queries changes no state)
LoopIteration ==
    /\ pc = "loop"
    /\ idx < Len(Items)
    /\ LET query == Items[idx + 1]
       IN  /\ idx' = idx + 1
           /\ total' = total + 1
           /\ invoked' = Append(invoked, query)
           /\ IF test_query(query)
              THEN passed' = passed + 1 /\ UNCHANGED failures
              ELSE failures' = Append(failures, query) /\ UNCHANGED passed
    /\ UNCHANGED <<args, dataExists, parserExists, corpus, outcomes, pc, data, limit,
                   categories, verboseOut, exitCode, raised, cfQuery, cfResult>>

\* line 85: the for loop is exhausted
LoopEnd ==
    /\ pc = "loop"
    /\ idx = Len(Items)
    /\ pc' = "results"
    /\ UNCHANGED <<args, dataExists, parserExists, corpus, outcomes, data, limit, idx,
                   total, passed, failures, invoked, categories, verboseOut, exitCode,
                   raised, cfQuery, cfResult>>

\* lines 98-103: 100*passed/total raises ZeroDivisionError when total is 0; the
\* exception is caught nowhere, so the interpreter exits with status 1
PrintResults ==
    /\ pc = "results"
    /\ IF total = 0
       THEN pc' = "done" /\ raised' = "ZeroDivisionError" /\ exitCode' = 1
       ELSE pc' = "categories" /\ UNCHANGED <<raised, exitCode>>
    /\ UNCHANGED <<args, dataExists, parserExists, corpus, outcomes, data, limit, idx,
                   total, passed, failures, invoked, categories, verboseOut,
                   cfQuery, cfResult>>

\* line 109
Categorize(fs) == Counter([i \in 1..Len(fs) |-> categorize_failure(fs[i])])

\* lines 105-111
PrintCategories ==
    /\ pc = "categories"
    /\ IF args.categorize /\ failures # <<>>
       THEN categories' = most_common(Categorize(failures))
       ELSE UNCHANGED categories
    /\ pc' = "verbose"
    /\ UNCHANGED <<args, dataExists, parserExists, corpus, outcomes, data, limit, idx,
                   total, passed, failures, invoked, verboseOut, exitCode, raised,
                   cfQuery, cfResult>>

\* line 117: failures[:20]
Sample(fs) == SliceTo(fs, SampleLimit)

\* lines 113-118
PrintSampleFailures ==
    /\ pc = "verbose"
    /\ IF args.verbose /\ failures # <<>>
       THEN verboseOut' = [i \in 1..Len(Sample(failures)) |-> Shown(Sample(failures)[i])]
       ELSE UNCHANGED verboseOut
    /\ pc' = "return"
    /\ UNCHANGED <<args, dataExists, parserExists, corpus, outcomes, data, limit, idx,
                   total, passed, failures, invoked, categories, exitCode, raised,
                   cfQuery, cfResult>>

\* line 120
Return ==
    /\ pc = "return"
    /\ pc' = "done"
    /\ exitCode' = 0
    /\ UNCHANGED <<args, dataExists, parserExists, corpus, outcomes, data, limit, idx,
                   total, passed, failures, invoked, categories, verboseOut, raised,
                   cfQuery, cfResult>>

Next ==
    \/ CheckSpiderData
    \/ CheckParserBin
    \/ LoadData
    \/ LoopIteration
    \/ LoopEnd
    \/ PrintResults
    \/ PrintCategories
    \/ PrintSampleFailures
    \/ Return

-----------------------------------------------------------------------------
(* The runs: main is entered with the command line parsed (lines 61-65) *)

\* the state of main on entry, whatever the inputs
Entry ==
    /\ pc = "check_data"
    /\ data = <<>>
    /\ limit = 0
    /\ idx = 0
    /\ total = 0
    /\ passed = 0
    /\ failures = <<>>
    /\ invoked = <<>>
    /\ categories = <<>>
    /\ verboseOut = <<>>
    /\ exitCode = -1
    /\ raised = "none"

\* 'a EXCEPT b', 'a || b', 'SELECT 1', '(select 1)'
QueryPool ==
    { <<"a"," ","E","X","C","E","P","T"," ","b">>,
      <<"a"," ","|","|"," ","b">>,
      <<"S","E","L","E","C","T"," ","1">>,
      <<"(","s","e","l","e","c","t"," ","1",")">> }

SeqsUpTo(S, n) == UNION {[1..k -> S] : k \in 0..n}

\* small runs: every corpus over QueryPool up to MaxCorpus queries, every sequence
\* of parser outcomes, limits from -2 to beyond the corpus, every flag, and either
\* resource missing (a missing corpus file has no contents)
Init ==
    /\ Entry
    /\ args \in [limit : -2..(MaxCorpus + 1), categorize : BOOLEAN, verbose : BOOLEAN]
    /\ dataExists \in BOOLEAN
    /\ parserExists \in BOOLEAN
    /\ corpus \in IF dataExists THEN SeqsUpTo(QueryPool, MaxCorpus) ELSE {<<>>}
    /\ outcomes \in [1..Len(corpus) -> BOOLEAN]
    /\ cfQuery = <<>>
    /\ cfResult = ""

Spec == Init /\ [][Next]_vars

\* 'SELECT ' followed by x's, n characters in all
Filler(n) == [i \in 1..n |-> IF i <= Len(SELECT) THEN SELECT[i] ELSE IF i = Len(SELECT) + 1 THEN " " ELSE "x"]

\* texts around the truncation length, and a short one
LongPool ==
    << Filler(TruncateLen + 1), Filler(TruncateLen), Filler(TruncateLen - 1),
       <<"a"," ","|","|"," ","b">>, Filler(TruncateLen + 4) >>

\* long runs: corpora around SampleLimit queries cycling through LongPool from
\* offset r, the parser rejecting every query or all but every k-th
InitVerbose ==
    /\ Entry
    /\ dataExists = TRUE
    /\ parserExists = TRUE
    /\ \E n \in (SampleLimit - 2)..MaxBig, r \in 0..4, k \in {0, 3, 7} :
          /\ corpus = [i \in 1..n |-> LongPool[((i + r) % Len(LongPool)) + 1]]
          /\ outcomes = [i \in 1..n |-> k > 0 /\ i % k = 0]
          /\ args \in [limit : {n - 1, n, n + 1}, categorize : BOOLEAN, verbose : BOOLEAN]
    /\ cfQuery = <<>>
    /\ cfResult = ""

SpecVerbose == InitVerbose /\ [][Next]_vars

-----------------------------------------------------------------------------
(* categorize_failure called on its own *)

Classify ==
    /\ cfResult = ""
    /\ cfResult' = categorize_failure(cfQuery)
    /\ UNCHANGED <<cfQuery, runVars>>

NextClassify == Classify

\* pieces of query text: the keywords of the rules in upper and lower case,
\* parentheses, quotes and filler
Fragments ==
    { SELECT, <<"s","e","l","e","c","t">>, <<"(">>, <<")">>,
      EXCEPT_, <<" ","u","n","i","o","n"," ">>, INTERSECT_, CASE_, WHEN_, CONCAT_,
      <<"E","X","C","E","P","T">>, <<" ">>,
      <<"\"">>, <<"\"","x">>, <<"x">> }

RECURSIVE Flatten(_)
Flatten(ss) == IF ss = <<>> THEN <<>> ELSE Head(ss) \o Flatten(Tail(ss))

\* 'SELECT * FROM (SELECT name FROM singer EXCEPT SELECT name FROM other)'
ExNested == <<"S","E","L","E","C","T"," ","*"," ","F","R","O","M"," ","(","S","E","L","E","C","T"," ","n","a","m","e"," ","F","R","O","M"," ","s","i","n","g","e","r"," ","E","X","C","E","P","T"," ","S","E","L","E","C","T"," ","n","a","m","e"," ","F","R","O","M"," ","o","t","h","e","r",")">>
\* 'SELECT name FROM singer EXCEPT SELECT name FROM other'
ExExcept == <<"S","E","L","E","C","T"," ","n","a","m","e"," ","F","R","O","M"," ","s","i","n","g","e","r"," ","E","X","C","E","P","T"," ","S","E","L","E","C","T"," ","n","a","m","e"," ","F","R","O","M"," ","o","t","h","e","r">>
\* 'SELECT a || b FROM t'
ExConcat == <<"S","E","L","E","C","T"," ","a"," ","|","|"," ","b"," ","F","R","O","M"," ","t">>
\* 'SELECT * FROM t WHERE name = ""'
ExQuotes == <<"S","E","L","E","C","T"," ","*"," ","F","R","O","M"," ","t"," ","W","H","E","R","E"," ","n","a","m","e"," ","="," ","\"","\"">>
\* 'SELECT COUNT(*) FROM singer WHERE age > 20'
ExCount == <<"S","E","L","E","C","T"," ","C","O","U","N","T","(","*",")"," ","F","R","O","M"," ","s","i","n","g","e","r"," ","W","H","E","R","E"," ","a","g","e"," ",">"," ","2","0">>

Examples == {ExNested, ExExcept, ExConcat, ExQuotes, ExCount}

\* the texts categorize_failure is called on: every concatenation of up to
\* MaxFrags fragments (the empty text among them), and the examples
Inputs == {Flatten(ss) : ss \in SeqsUpTo(Fragments, MaxFrags)} \cup Examples

InitClassify ==
    /\ Entry
    /\ args = [limit |-> 0, categorize |-> FALSE, verbose |-> FALSE]
    /\ dataExists = FALSE
    /\ parserExists = FALSE
    /\ corpus = <<>>
    /\ outcomes = <<>>
    /\ cfQuery \in Inputs
    /\ cfResult = ""

SpecClassify == InitClassify /\ [][NextClassify]_vars

-----------------------------------------------------------------------------
(* The rules of the classifier as the specification words them *)

\* pat occurs in t starting at position i (1-based)
OccursAt(t, pat, i) ==
    /\ i >= 1
    /\ i + Len(pat) - 1 <= Len(t)
    /\ \A j \in 1..Len(pat) : t[i + j - 1] = pat[j]

Occurs(t, pat) == \E i \in 1..Len(t) : OccursAt(t, pat, i)

\* the positions of the character ch in t
Positions(t, ch) == {i \in 1..Len(t) : t[i] = ch}

\* t contains SELECT and '(', and SELECT occurs after the first '('
SubqueryPredicate(t) ==
    /\ Occurs(t, SELECT)
    /\ Positions(t, "(") # {}
    /\ \E p \in Positions(t, "(") :
          /\ \A p2 \in Positions(t, "(") : p <= p2
          /\ \E i \in (p + 1)..Len(t) : OccursAt(t, SELECT, i)

\* an adjacent pair of double quotes, or an odd number of double quotes
QuotePredicate(raw) ==
    \/ \E i \in 1..(Len(raw) - 1) : raw[i] = "\"" /\ raw[i + 1] = "\""
    \/ Cardinality(Positions(raw, "\"")) % 2 = 1

\* rule r of section 4.2 matches the text raw
RuleHolds(r, raw) ==
    CASE r = 1 -> SubqueryPredicate(upper(raw))
      [] r = 2 -> Occurs(upper(raw), EXCEPT_)
      [] r = 3 -> Occurs(upper(raw), UNION_)
      [] r = 4 -> Occurs(upper(raw), INTERSECT_)
      [] r = 5 -> Occurs(upper(raw), CASE_) \/ Occurs(upper(raw), WHEN_)
      [] r = 6 -> Occurs(upper(raw), CONCAT_)
      [] r = 7 -> QuotePredicate(raw)
      [] r = 8 -> TRUE

\* the label of each rule: String-concat is printed 'String concat (||)' and
\* Double-quoted-strings is printed 'Double-quoted strings'
RuleLabel ==
    << "Subquery", "EXCEPT", "UNION", "INTERSECT", "CASE/WHEN",
       "String concat (||)", "Double-quoted strings", "Other" >>

CategorySet == {RuleLabel[r] : r \in 1..Len(RuleLabel)}

Returned == cfResult # ""

-----------------------------------------------------------------------------
(* Claims about categorize_failure, checked under SpecClassify *)

\* C2: categorize_failure returns, for every text (the empty text included), one
\* label of the closed set of eight categories
C2_TotalInCategorySet ==
    Returned => cfResult \in CategorySet

\* C2 witness: the call has returned for the empty text, and for a text no rule matches
C2_Witness ==
    /\ Returned
    /\ cfQuery = <<>>
    /\ cfResult = "Other"

\* C3: the returned category is that of the lowest-numbered rule whose predicate
\* holds: a text matching rules i and j, i < j, is never classified as j
C3_FirstMatchWins ==
    Returned =>
        \E r \in 1..Len(RuleLabel) :
            /\ cfResult = RuleLabel[r]
            /\ RuleHolds(r, cfQuery)
            /\ \A k \in 1..(r - 1) : ~RuleHolds(k, cfQuery)

\* C3 witness: a text matching both the Subquery and the EXCEPT predicate is
\* classified Subquery
C3_Witness ==
    /\ Returned
    /\ RuleHolds(1, cfQuery)
    /\ RuleHolds(2, cfQuery)
    /\ cfResult = "Subquery"

\* C9: the result is Subquery exactly when the uppercased text contains SELECT and
\* '(' with SELECT somewhere after the first '('; a text with SELECT and ' EXCEPT '
\* and no parenthesis is EXCEPT; 'SELECT COUNT(*) ...' is not Subquery
C9_SubqueryRule ==
    Returned =>
        /\ (cfResult = "Subquery") <=> SubqueryPredicate(upper(cfQuery))
        /\ ( /\ Occurs(upper(cfQuery), SELECT)
             /\ Occurs(upper(cfQuery), EXCEPT_)
             /\ Positions(cfQuery, "(") = {} ) => cfResult = "EXCEPT"
        /\ cfQuery = ExExcept => cfResult = "EXCEPT"
        /\ cfQuery = ExCount => cfResult # "Subquery"

\* C9 witness: Subquery is returned for a text whose SELECT after the first '('
\* lies beyond the next ')', outside the parenthesis group
C9_Witness ==
    /\ Returned
    /\ cfResult = "Subquery"
    /\ \E p \in Positions(cfQuery, "(") :
          /\ \A p2 \in Positions(cfQuery, "(") : p <= p2
          /\ \E c \in Positions(cfQuery, ")") :
                /\ c > p
                /\ \A i \in (p + 1)..c : ~OccursAt(upper(cfQuery), SELECT, i)

\* C10: when none of rules 1-6 matches, the category is Double-quoted strings if
\* and only if the original text has an adjacent pair of double quotes or an odd
\* number of them, and Other otherwise
C10_QuoteRule ==
    (Returned /\ \A r \in 1..6 : ~RuleHolds(r, cfQuery)) =>
        /\ (cfResult = "Double-quoted strings") <=> QuotePredicate(cfQuery)
        /\ ~QuotePredicate(cfQuery) => cfResult = "Other"

\* C10 witness: an even, non-zero number of double quotes, none adjacent, gives Other
C10_Witness ==
    /\ Returned
    /\ \A r \in 1..6 : ~RuleHolds(r, cfQuery)
    /\ Cardinality(Positions(cfQuery, "\"")) >= 2
    /\ Cardinality(Positions(cfQuery, "\"")) % 2 = 0
    /\ ~QuotePredicate(cfQuery)
    /\ cfResult = "Other"

-----------------------------------------------------------------------------
(* Claims about main, checked under Spec (C8 under SpecVerbose) *)

BothExist == dataExists /\ parserExists

\* the queries among the first k calls of the parser on which it did not exit 0
RECURSIVE Rejected(_)
Rejected(k) ==
    IF k = 0 THEN <<>>
    ELSE IF outcomes[k] THEN Rejected(k - 1) ELSE Append(Rejected(k - 1), invoked[k])

RECURSIVE SumCounts(_)
SumCounts(h) == IF h = <<>> THEN 0 ELSE Head(h)[2] + SumCounts(Tail(h))

\* C1: passed + failed = total after every loop iteration and at the end; every
\* processed query adds one to total and either one to passed or itself to the
\* failures, never both and never neither
C1_Accounting ==
    /\ passed + Len(failures) = total
    /\ total = Len(invoked)
    /\ passed = Cardinality({k \in 1..total : outcomes[k]})
    /\ failures = Rejected(total)

\* C1 witness: a finished run in which queries passed and queries failed
C1_Witness ==
    /\ pc = "done"
    /\ exitCode = 0
    /\ passed >= 1
    /\ Len(failures) >= 2

\* C4: exactly the first min(limit, corpus length) queries are processed, in
\* stored order, one parser call each; never more than the limit; a limit beyond
\* the corpus processes the whole corpus and the run completes without error
C4_ProcessesClippedPrefix ==
    /\ Len(invoked) <= Max(args.limit, 0)
    /\ (BothExist /\ pc \in {"results", "categories", "verbose", "return", "done"}) =>
          invoked = SubSeq(corpus, 1, Max(0, Min(args.limit, Len(corpus))))
    /\ (BothExist /\ pc = "done" /\ args.limit > Len(corpus)) =>
          /\ Len(invoked) = Len(corpus)
          /\ raised = "none"

\* C5: with an empty prefix to process (empty corpus, or limit 0) the run ends
\* with exit code 0 and total = passed = failed = 0, without an arithmetic error
C5_EmptyPrefixCompletes ==
    (BothExist /\ pc = "done" /\ (corpus = <<>> \/ args.limit = 0)) =>
        /\ raised = "none"
        /\ exitCode = 0
        /\ total = 0 /\ passed = 0 /\ failures = <<>>

\* C6: with categorization requested and a failure retained, every retained
\* failure is counted in exactly one histogram line: the counts sum to the number
\* of failures, each is at least 1, and the lines are in non-increasing order
C6_Histogram ==
    (args.categorize /\ failures # <<>> /\ pc \in {"verbose", "return", "done"}) =>
        /\ SumCounts(categories) = Len(failures)
        /\ \A i \in 1..Len(categories) : categories[i][2] >= 1
        /\ \A i, j \in 1..Len(categories) :
              /\ i < j => categories[i][2] >= categories[j][2]
              /\ i # j => categories[i][1] # categories[j][1]
        /\ \A i \in 1..Len(categories) :
              categories[i][2] =
                  Cardinality({k \in 1..Len(failures) :
                                   categorize_failure(failures[k]) = categories[i][1]})

\* C6 witness: a printed histogram whose most frequent category was not the first
\* one encountered
C6_Witness ==
    /\ pc = "done"
    /\ args.categorize
    /\ Len(categories) >= 2
    /\ categories[1][2] > categories[2][2]
    /\ categorize_failure(failures[1]) # categories[1][1]

\* C7: with the corpus file or the parser binary missing, main returns 1, the
\* parser has been invoked zero times and no counter has changed; the parser is
\* invoked only in runs where both were found
C7_SetupFailure ==
    /\ (~BothExist /\ pc = "done") =>
          /\ exitCode = 1
          /\ invoked = <<>>
          /\ total = 0 /\ passed = 0 /\ failures = <<>>
    /\ invoked # <<>> => BothExist
    /\ ~BothExist => pc \in {"check_data", "check_parser", "done"}

\* C7 witness: a run over a non-empty corpus ended by the missing parser
C7_Witness ==
    /\ pc = "done"
    /\ dataExists
    /\ ~parserExists
    /\ corpus # <<>>
    /\ exitCode = 1

\* C8: the verbose listing has min(20, number of failures) entries, the first
\* retained failures in order; each is the first 100 characters of the query
\* followed by '...' exactly when the query is longer than 100, at most 103 in all
C8_VerboseListing ==
    (args.verbose /\ failures # <<>> /\ pc \in {"return", "done"}) =>
        /\ Len(verboseOut) <= 20
        /\ Len(verboseOut) = Min(20, Len(failures))
        /\ \A i \in 1..Len(verboseOut) :
              LET q == failures[i]
                  out == verboseOut[i]
              IN  /\ Len(out) <= 103
                  /\ Len(q) <= 100 => out = q
                  /\ Len(q) > 100 =>
                        /\ Len(out) = 103
                        /\ SubSeq(out, 1, 100) = SubSeq(q, 1, 100)
                        /\ SubSeq(out, 101, 103) = <<".", ".", ".">>

\* C8 witness: more than 20 failures, 20 listed, among them a query of exactly
\* 100 characters and a longer one
C8_Witness ==
    /\ pc = "done"
    /\ args.verbose
    /\ Len(failures) > 20
    /\ Len(verboseOut) = 20
    /\ \E i \in 1..20 : Len(failures[i]) = 100
    /\ \E i \in 1..20 : Len(failures[i]) > 100 /\ Len(verboseOut[i]) = 103

=============================================================================
